---- MODULE Spec2Model ----
(***************************************************************************)
(* Model of the layer stack manager, src/src/layers.rs (LayersManager).    *)
(*                                                                         *)
(* The manager's fields are the variables; every public method is one      *)
(* action.  The methods that change layers are written as operators over   *)
(* a record s = [merged, layers_states, sent] (the two fields they write   *)
(* and the messages they have sent), so that toggle_profile can chain them *)
(* exactly as the code chains the calls.  The notify feature is modelled   *)
(* as built in.  A failed assert!/index panic moves the caller to          *)
(* "aborted".                                                              *)
(***************************************************************************)
EXTENDS Integers, Sequences, FiniteSets, TLC

VARIABLES
    merged,          \* LayersManager.merged : Vec<Option<MergedKey>>
    layers,          \* LayersManager.layers (read-only after new)
    layer_aliases,   \* LayersManager.layer_aliases
    layer_profiles,  \* LayersManager.layer_profiles
    layers_states,   \* LayersManager.layers_states : Vec<bool>
    key_locks,       \* LayersManager.key_locks : HashMap<KeyCode, LockOwner>
    global_lock,     \* LayersManager.global_lock : Option<LockOwner>
    pc,              \* the caller: "new" (constructed), "run" (init called), "aborted" (panicked)
    notified,        \* the messages the last call handed to notify_socket, in order
    last,            \* the call that produced this state
    scenario,        \* how many calls of ScenarioA the caller has made, when it
                     \* has made exactly those on the test_mgr layers; else -1
    scenario_c       \* the same for ScenarioC, on layers whose layer 1 maps KEY_H

vars == <<merged, layers, layer_aliases, layer_profiles, layers_states,
          key_locks, global_lock, notified, pc, last, scenario, scenario_c>>

-----------------------------------------------------------------------------
(* Key codes used by the configurations (Linux input event codes).         *)

KEY_LEFTCTRL == 29
KEY_A == 30
KEY_S == 31
KEY_D == 32
KEY_H == 35
KEY_J == 36
KEY_K == 37
KEY_L == 38
KEY_LEFTSHIFT == 42
KEY_LEFTALT == 56
KEY_CAPSLOCK == 58
KEY_UP == 103
KEY_LEFT == 105
KEY_RIGHT == 106
KEY_DOWN == 108

\* The key space [0, MAX_KEY).  The crate's KEY_MAX is larger; the model
\* keeps the prefix that holds every key the configurations mention.
MAX_KEY == 109

\* Integers of the key range that have no KeyCode.
MISSING_KEYCODES ==
    (84..84) \cup (195..199) \cup (249..351) \cup (443..447) \cup (452..463)
    \cup (485..496) \cup (507..511) \cup (543..559) \cup (562..575)
    \cup (585..591) \cup (594..607) \cup (633..766)

\* KeyCode::try_from(i).is_ok()
TryFrom(i) == i \notin MISSING_KEYCODES

KeyCode == {i \in 0..(MAX_KEY - 1) : TryFrom(i)}

LockOwner == {"LkTapHold", "LkTapDance", "LkSticky"}

\* Option::None of global_lock
NoOwner == "None"

\* Option::None of a merged slot
None == [none |-> TRUE]

\* Effect::Key, Action::Tap, Action::TapHold
Key(code) == <<"Key", code>>
Tap(effect) == <<"Tap", effect>>
TapHold(tap, hold) == <<"TapHold", tap, hold>>

MergedKey(code, action, layer_index) ==
    [code |-> code, action |-> action, layer_index |-> layer_index]

Max(S) == CHOOSE x \in S : \A y \in S : y <= x

-----------------------------------------------------------------------------
(* Configurations handed to new().                                         *)

\* test_mgr
CfgA ==
    [layers |->
        (0 :> ((KEY_LEFTCTRL :> Tap(Key(KEY_CAPSLOCK)))
               @@ (KEY_CAPSLOCK :> Tap(Key(KEY_LEFTCTRL)))))
        @@ (1 :> ((KEY_H :> Tap(Key(KEY_LEFT)))
                  @@ (KEY_J :> Tap(Key(KEY_DOWN)))
                  @@ (KEY_K :> Tap(Key(KEY_UP)))
                  @@ (KEY_L :> Tap(Key(KEY_RIGHT)))))
        @@ (2 :> ((KEY_A :> TapHold(Key(KEY_A), Key(KEY_LEFTCTRL)))
                  @@ (KEY_S :> TapHold(Key(KEY_S), Key(KEY_LEFTSHIFT)))
                  @@ (KEY_D :> TapHold(Key(KEY_D), Key(KEY_LEFTALT))))),
     layer_aliases |-> [n \in {"base", "arrows", "asdf"} |->
                          CASE n = "base" -> 0 [] n = "arrows" -> 1 [] n = "asdf" -> 2],
     layer_profiles |-> <<>>]

\* test_overlapping_keys
CfgB ==
    [layers |->
        (0 :> (KEY_A :> TapHold(Key(KEY_A), Key(KEY_LEFTSHIFT))))
        @@ (1 :> (KEY_A :> TapHold(Key(KEY_A), Key(KEY_LEFTSHIFT)))),
     layer_aliases |-> [n \in {"base", "arrows"} |->
                          CASE n = "base" -> 0 [] n = "arrows" -> 1],
     layer_profiles |-> <<>>]

\* Three layers that share keys, with the profile of the profile scenario,
\* a profile that names the base layer, and a profile whose alias names a
\* layer that its indices do not.
CfgD ==
    [layers |->
        (0 :> ((KEY_LEFTCTRL :> Tap(Key(KEY_CAPSLOCK)))
               @@ (KEY_S :> TapHold(Key(KEY_S), Key(KEY_LEFTSHIFT)))))
        @@ (1 :> ((KEY_H :> Tap(Key(KEY_LEFT)))
                  @@ (KEY_A :> Tap(Key(KEY_DOWN)))))
        @@ (2 :> ((KEY_A :> TapHold(Key(KEY_A), Key(KEY_LEFTCTRL)))
                  @@ (KEY_S :> TapHold(Key(KEY_S), Key(KEY_LEFTALT)))
                  @@ (KEY_D :> Tap(Key(KEY_UP))))),
     layer_aliases |-> [n \in {"base", "arrows"} |->
                          CASE n = "base" -> 0 [] n = "arrows" -> 1],
     layer_profiles |->
        [n \in {"p", "b", "q"} |->
            CASE n = "p" -> [indices |-> <<1, 2>>, aliases |-> <<"arrows">>]
              [] n = "b" -> [indices |-> <<0>>, aliases |-> <<"base">>]
              [] n = "q" -> [indices |-> <<2>>, aliases |-> <<"arrows">>]]]

Configs == {CfgA, CfgB, CfgD}

\* Arguments the caller passes.
LockKeys == {KEY_A, KEY_H}
AliasNames == {"base", "arrows", "asdf", "nope"}
ProfileNames == {"p", "b", "q", "nope"}
LayerIndices == DOMAIN layers

-----------------------------------------------------------------------------
(* Construction.                                                           *)

init_merged ==
    [i \in 0..(MAX_KEY - 1) |->
        IF TryFrom(i) THEN MergedKey(i, Tap(Key(i)), 0) ELSE None]

Call(op, index, name, key, owner, on) ==
    [op |-> op, index |-> index, name |-> name, key |-> key, owner |-> owner, on |-> on]

Init ==
    \E cfg \in Configs :
        /\ merged = init_merged
        /\ layers = cfg.layers
        /\ layer_aliases = cfg.layer_aliases
        /\ layer_profiles = cfg.layer_profiles
        /\ layers_states = [i \in DOMAIN cfg.layers |-> FALSE]
        /\ key_locks = <<>>
        /\ global_lock = NoOwner
        /\ notified = <<>>
        /\ pc = "new"
        /\ last = Call("new", -1, "", -1, NoOwner, FALSE)
        /\ scenario = IF cfg = CfgA THEN 0 ELSE -1
        /\ scenario_c = IF KEY_H \in DOMAIN cfg.layers[1] THEN 0 ELSE -1

-----------------------------------------------------------------------------
(* Queries and helpers of the layer changes.                               *)

is_all_locked == global_lock # NoOwner

\* get(key): the slot of key; the code panics on an empty slot, and every
\* key handed to it is a KeyCode, whose slot init_merged fills.
get(m, key) == m[key]

\* is_overriding_key with > in place of >=
is_overriding_key_strict(m, candidate_code, candidate_layer_index) ==
    candidate_layer_index > get(m, candidate_code).layer_index

is_overriding_key(m, candidate_code, candidate_layer_index) ==
    candidate_layer_index >= get(m, candidate_code).layer_index

\* get_replacement_merged_key that empties the slot when no lower layer has the key
get_replacement_merged_key_clears(m, removed_code) ==
    LET current == get(m, removed_code).layer_index
        found == {i \in 0..(current - 1) : removed_code \in DOMAIN layers[i]}
    IN  IF found # {}
        THEN LET i == Max(found)
             IN  MergedKey(removed_code, layers[i][removed_code], i)
        ELSE None

\* get_replacement_merged_key that keeps the layer_index of the removed entry
get_replacement_merged_key_keeps_index(m, removed_code) ==
    LET current == get(m, removed_code).layer_index
        found == {i \in 0..(current - 1) : removed_code \in DOMAIN layers[i]}
    IN  IF found # {}
        THEN LET i == Max(found)
             IN  MergedKey(removed_code, layers[i][removed_code], current)
        ELSE MergedKey(removed_code, Tap(Key(removed_code)), 0)

get_replacement_merged_key(m, removed_code) ==
    LET current == get(m, removed_code).layer_index
        found == {i \in 0..(current - 1) : removed_code \in DOMAIN layers[i]}
    IN  IF found # {}
        THEN LET i == Max(found)
             IN  MergedKey(removed_code, layers[i][removed_code], i)
        ELSE MergedKey(removed_code, Tap(Key(removed_code)), 0)

\* will_layer_override_held_lock that never finds a locked key
will_layer_override_held_lock_none(layer) == {}

\* The locked keys of the layer; the code returns one of them, or None
\* when there is none, and its caller only tests which of the two it is.
will_layer_override_held_lock(layer) ==
    {key \in DOMAIN layer : key \in DOMAIN key_locks}

\* is_layer_change_safe without the test of the global lock
is_layer_change_safe_no_global(index, layer) ==
    IF will_layer_override_held_lock(layer) # {}
    THEN FALSE
    ELSE TRUE

is_layer_change_safe(index, layer) ==
    IF is_all_locked
    THEN FALSE
    ELSE IF will_layer_override_held_lock(layer) # {}
         THEN FALSE
         ELSE TRUE

\* The message goes to the socket; a failed send is only logged.
send_notification(s, index, state) ==
    LET str_state == IF state THEN "on" ELSE "off"
        msg == "layer " \o ToString(index) \o ":" \o str_state
    IN  [s EXCEPT !.sent = Append(@, msg)]

\* turn_layer_on that sends its notification before the lock test
turn_layer_on_notifies_first(s, index) ==
    IF ~s.layers_states[index]
    THEN LET layer == layers[index]
             told == send_notification(s, index, TRUE)
         IN  IF ~is_layer_change_safe(index, layer)
             THEN told
             ELSE [merged |->
                      [c \in DOMAIN s.merged |->
                          IF c \in DOMAIN layer /\ is_overriding_key(s.merged, c, index)
                          THEN MergedKey(c, layer[c], index)
                          ELSE s.merged[c]],
                   layers_states |-> [s.layers_states EXCEPT ![index] = TRUE],
                   sent |-> told.sent]
    ELSE s

\* turn_layer_on that writes every key of the layer, overriding or not
turn_layer_on_writes_all(s, index) ==
    IF ~s.layers_states[index]
    THEN LET layer == layers[index]
         IN  IF ~is_layer_change_safe(index, layer)
             THEN s
             ELSE send_notification(
                  [merged |->
                      [c \in DOMAIN s.merged |->
                          IF c \in DOMAIN layer
                          THEN MergedKey(c, layer[c], index)
                          ELSE s.merged[c]],
                   layers_states |-> [s.layers_states EXCEPT ![index] = TRUE],
                   sent |-> s.sent],
                  index, TRUE)
    ELSE s

\* turn_layer_on that records the layer as on before the lock test
turn_layer_on_marks_first(s, index) ==
    IF ~s.layers_states[index]
    THEN LET layer == layers[index]
         IN  IF ~is_layer_change_safe(index, layer)
             THEN [s EXCEPT !.layers_states[index] = TRUE]
             ELSE send_notification(
                  [merged |->
                      [c \in DOMAIN s.merged |->
                          IF c \in DOMAIN layer /\ is_overriding_key(s.merged, c, index)
                          THEN MergedKey(c, layer[c], index)
                          ELSE s.merged[c]],
                   layers_states |-> [s.layers_states EXCEPT ![index] = TRUE],
                   sent |-> s.sent],
                  index, TRUE)
    ELSE s

turn_layer_on(s, index) ==
    IF ~s.layers_states[index]
    THEN LET layer == layers[index]
         IN  IF ~is_layer_change_safe(index, layer)
             THEN s
             ELSE send_notification(
                  [merged |->
                      [c \in DOMAIN s.merged |->
                          IF c \in DOMAIN layer /\ is_overriding_key(s.merged, c, index)
                          THEN MergedKey(c, layer[c], index)
                          ELSE s.merged[c]],
                   layers_states |-> [s.layers_states EXCEPT ![index] = TRUE],
                   sent |-> s.sent],
                  index, TRUE)
    ELSE s

\* turn_layer_off without the test that the layer is on
turn_layer_off_unguarded(s, index) ==
    IF index > 0
    THEN LET layer == layers[index]
         IN  IF ~is_layer_change_safe(index, layer)
             THEN s
             ELSE send_notification(
                  [merged |->
                      [c \in DOMAIN s.merged |->
                          IF c \in DOMAIN layer
                          THEN get_replacement_merged_key(s.merged, c)
                          ELSE s.merged[c]],
                   layers_states |-> [s.layers_states EXCEPT ![index] = FALSE],
                   sent |-> s.sent],
                  index, FALSE)
    ELSE s

\* turn_layer_off without the test index > 0
turn_layer_off_base(s, index) ==
    IF s.layers_states[index]
    THEN LET layer == layers[index]
         IN  IF ~is_layer_change_safe(index, layer)
             THEN s
             ELSE send_notification(
                  [merged |->
                      [c \in DOMAIN s.merged |->
                          IF c \in DOMAIN layer
                          THEN get_replacement_merged_key(s.merged, c)
                          ELSE s.merged[c]],
                   layers_states |-> [s.layers_states EXCEPT ![index] = FALSE],
                   sent |-> s.sent],
                  index, FALSE)
    ELSE s

turn_layer_off(s, index) ==
    IF index > 0 /\ s.layers_states[index]
    THEN LET layer == layers[index]
         IN  IF ~is_layer_change_safe(index, layer)
             THEN s
             ELSE send_notification(
                  [merged |->
                      [c \in DOMAIN s.merged |->
                          IF c \in DOMAIN layer
                          THEN get_replacement_merged_key(s.merged, c)
                          ELSE s.merged[c]],
                   layers_states |-> [s.layers_states EXCEPT ![index] = FALSE],
                   sent |-> s.sent],
                  index, FALSE)
    ELSE s

\* toggle_layer with the two branches exchanged
toggle_layer_flipped(s, index) ==
    LET is_layer_on == s.layers_states[index]
    IN  IF is_layer_on THEN turn_layer_on(s, index) ELSE turn_layer_off(s, index)

toggle_layer(s, index) ==
    LET is_layer_on == s.layers_states[index]
    IN  IF is_layer_on THEN turn_layer_off(s, index) ELSE turn_layer_on(s, index)

\* get_idx_from_alias that answers layer 1 for a name it does not know
get_idx_from_alias_or_default(name) ==
    IF name \in DOMAIN layer_aliases THEN {layer_aliases[name]} ELSE {1}

\* Option<&usize>: the set holding the index, empty when the name is unknown
get_idx_from_alias(name) ==
    IF name \in DOMAIN layer_aliases THEN {layer_aliases[name]} ELSE {}

toggle_layer_alias(s, name) ==
    IF get_idx_from_alias(name) # {}
    THEN toggle_layer(s, CHOOSE idx \in get_idx_from_alias(name) : TRUE)
    ELSE s

turn_alias_on(s, name) ==
    IF get_idx_from_alias(name) # {}
    THEN turn_layer_on(s, CHOOSE idx \in get_idx_from_alias(name) : TRUE)
    ELSE s

turn_alias_off(s, name) ==
    IF get_idx_from_alias(name) # {}
    THEN turn_layer_off(s, CHOOSE idx \in get_idx_from_alias(name) : TRUE)
    ELSE s

\* the loops over profile.indices, given up at the first entry a lock rejects
RECURSIVE for_indices_until_rejected(_, _, _)
for_indices_until_rejected(s, indices, on) ==
    IF indices = <<>>
    THEN s
    ELSE IF ~is_layer_change_safe(Head(indices), layers[Head(indices)])
         THEN s
         ELSE for_indices_until_rejected(
                  IF on THEN turn_layer_on(s, Head(indices))
                        ELSE turn_layer_off(s, Head(indices)),
                  Tail(indices), on)

\* the loops of toggle_profile, in the order of the profile's vectors
RECURSIVE for_indices(_, _, _)
for_indices(s, indices, on) ==
    IF indices = <<>>
    THEN s
    ELSE for_indices(IF on THEN turn_layer_on(s, Head(indices))
                           ELSE turn_layer_off(s, Head(indices)),
                     Tail(indices), on)

\* toggle_profile without its loops over profile.aliases
for_aliases_skipped(s, aliases, on) == s

RECURSIVE for_aliases(_, _, _)
for_aliases(s, aliases, on) ==
    IF aliases = <<>>
    THEN s
    ELSE for_aliases(IF on THEN turn_alias_on(s, Head(aliases))
                           ELSE turn_alias_off(s, Head(aliases)),
                     Tail(aliases), on)

toggle_profile(s, name, on) ==
    IF name \in DOMAIN layer_profiles
    THEN LET profile == layer_profiles[name]
         IN  for_aliases(for_indices(s, profile.indices, on), profile.aliases, on)
    ELSE s

-----------------------------------------------------------------------------
(* The calls.  init() has to be the caller's first call; afterwards any    *)
(* method may be called, init again included.                              *)

Self == [merged |-> merged, layers_states |-> layers_states, sent |-> <<>>]

\* The calls of the regression scenario on the test_mgr layers, up to the
\* toggle that follows the release of the global lock.
ScenarioA ==
    << Call("init", 0, "", -1, NoOwner, FALSE),
       Call("turn_layer_on", 2, "", -1, NoOwner, FALSE),
       Call("turn_layer_on", 1, "", -1, NoOwner, FALSE),
       Call("turn_layer_off", 2, "", -1, NoOwner, FALSE),
       Call("toggle_layer", 1, "", -1, NoOwner, FALSE),
       Call("lock_all", -1, "", -1, "LkTapHold", FALSE),
       Call("toggle_layer", 1, "", -1, NoOwner, FALSE),
       Call("unlock_all", -1, "", -1, "LkTapHold", FALSE),
       Call("toggle_layer", 1, "", -1, NoOwner, FALSE) >>

\* The calls of the per-key lock scenario: a turn_layer_on rejected under
\* a lock on a key of the layer, then made again after the unlock.
ScenarioC ==
    << Call("init", 0, "", -1, NoOwner, FALSE),
       Call("lock_key", -1, "", KEY_H, "LkTapHold", FALSE),
       Call("turn_layer_on", 1, "", -1, NoOwner, FALSE),
       Call("unlock_key", -1, "", KEY_H, "LkTapHold", FALSE),
       Call("turn_layer_on", 1, "", -1, NoOwner, FALSE) >>

Track(call) ==
    /\ last' = call
    /\ scenario' = IF scenario >= 0 /\ scenario < Len(ScenarioA)
                   THEN (IF call = ScenarioA[scenario + 1] THEN scenario + 1 ELSE -1)
                   ELSE -1
    /\ scenario_c' = IF scenario_c >= 0 /\ scenario_c < Len(ScenarioC)
                     THEN (IF call = ScenarioC[scenario_c + 1] THEN scenario_c + 1 ELSE -1)
                     ELSE -1

Config == <<layers, layer_aliases, layer_profiles>>
Locks == <<key_locks, global_lock>>

\* the fields a layer change writes
Store(s) ==
    /\ merged' = s.merged
    /\ layers_states' = s.layers_states
    /\ notified' = s.sent
    /\ UNCHANGED <<Config, Locks, pc>>

Abort ==
    /\ pc' = "aborted"
    /\ notified' = <<>>
    /\ UNCHANGED <<merged, layers_states, Config, Locks>>

DoInit ==
    /\ pc \in {"new", "run"}
    /\ merged' = turn_layer_on(Self, 0).merged
    /\ layers_states' = turn_layer_on(Self, 0).layers_states
    /\ notified' = turn_layer_on(Self, 0).sent
    /\ pc' = "run"
    /\ Track(Call("init", 0, "", -1, NoOwner, FALSE))
    /\ UNCHANGED <<Config, Locks>>

TurnLayerOn ==
    /\ pc = "run"
    /\ \E index \in LayerIndices :
        /\ Store(turn_layer_on(Self, index))
        /\ Track(Call("turn_layer_on", index, "", -1, NoOwner, FALSE))

TurnLayerOff ==
    /\ pc = "run"
    /\ \E index \in LayerIndices :
        /\ Store(turn_layer_off(Self, index))
        /\ Track(Call("turn_layer_off", index, "", -1, NoOwner, FALSE))

ToggleLayer ==
    /\ pc = "run"
    /\ \E index \in LayerIndices :
        /\ Store(toggle_layer(Self, index))
        /\ Track(Call("toggle_layer", index, "", -1, NoOwner, FALSE))

ToggleLayerAlias ==
    /\ pc = "run"
    /\ \E name \in AliasNames :
        /\ Store(toggle_layer_alias(Self, name))
        /\ Track(Call("toggle_layer_alias", -1, name, -1, NoOwner, FALSE))

TurnAliasOn ==
    /\ pc = "run"
    /\ \E name \in AliasNames :
        /\ Store(turn_alias_on(Self, name))
        /\ Track(Call("turn_alias_on", -1, name, -1, NoOwner, FALSE))

TurnAliasOff ==
    /\ pc = "run"
    /\ \E name \in AliasNames :
        /\ Store(turn_alias_off(Self, name))
        /\ Track(Call("turn_alias_off", -1, name, -1, NoOwner, FALSE))

ToggleProfile ==
    /\ pc = "run"
    /\ \E name \in ProfileNames, on \in BOOLEAN :
        /\ Store(toggle_profile(Self, name, on))
        /\ Track(Call("toggle_profile", -1, name, -1, NoOwner, on))

lock_key(locks, key, owner) == (key :> owner) @@ locks

unlock_key(locks, key) == [k \in (DOMAIN locks) \ {key} |-> locks[k]]

\* lock_key without its assert
LockKey_no_assert ==
    /\ pc = "run"
    /\ \E key \in LockKeys, owner \in LockOwner :
        /\ Track(Call("lock_key", -1, "", key, owner, FALSE))
        /\ key_locks' = lock_key(key_locks, key, owner)
        /\ notified' = <<>>
        /\ UNCHANGED <<merged, layers_states, Config, global_lock, pc>>

LockKey ==
    /\ pc = "run"
    /\ \E key \in LockKeys, owner \in LockOwner :
        /\ Track(Call("lock_key", -1, "", key, owner, FALSE))
        /\ IF ~(key \notin DOMAIN key_locks)
           THEN Abort
           ELSE /\ key_locks' = lock_key(key_locks, key, owner)
                /\ notified' = <<>>
                /\ UNCHANGED <<merged, layers_states, Config, global_lock, pc>>

UnlockKey ==
    /\ pc = "run"
    /\ \E key \in LockKeys, owner \in LockOwner :
        /\ Track(Call("unlock_key", -1, "", key, owner, FALSE))
        /\ IF key \notin DOMAIN key_locks \/ ~(key_locks[key] = owner)
           THEN Abort
           ELSE /\ key_locks' = unlock_key(key_locks, key)
                /\ notified' = <<>>
                /\ UNCHANGED <<merged, layers_states, Config, global_lock, pc>>

LockAll ==
    /\ pc = "run"
    /\ \E owner \in LockOwner :
        /\ Track(Call("lock_all", -1, "", -1, owner, FALSE))
        /\ IF ~(global_lock = NoOwner)
           THEN Abort
           ELSE /\ global_lock' = owner
                /\ notified' = <<>>
                /\ UNCHANGED <<merged, layers_states, Config, key_locks, pc>>

UnlockAll ==
    /\ pc = "run"
    /\ \E owner \in LockOwner :
        /\ Track(Call("unlock_all", -1, "", -1, owner, FALSE))
        /\ IF ~(global_lock # NoOwner)
           THEN Abort
           ELSE /\ global_lock' = NoOwner
                /\ notified' = <<>>
                /\ UNCHANGED <<merged, layers_states, Config, key_locks, pc>>

Next ==
    \/ DoInit
    \/ TurnLayerOn
    \/ TurnLayerOff
    \/ ToggleLayer
    \/ ToggleLayerAlias
    \/ TurnAliasOn
    \/ TurnAliasOff
    \/ ToggleProfile
    \/ LockKey
    \/ UnlockKey
    \/ LockAll
    \/ UnlockAll

Spec == Init /\ [][Next]_vars

-----------------------------------------------------------------------------
(* Properties.                                                             *)

NoLocks == key_locks = <<>> /\ global_lock = NoOwner

\* the layers that are on and map k
ActiveWith(k) == {L \in DOMAIN layers : layers_states[L] /\ k \in DOMAIN layers[L]}

Identity(k) == MergedKey(k, Tap(Key(k)), 0)

LayerCalls ==
    {"turn_layer_on", "turn_layer_off", "toggle_layer", "turn_alias_on",
     "turn_alias_off", "toggle_layer_alias", "toggle_profile"}

\* C1: highest active layer wins.  After init, with no lock held, get(k) of
\* every valid key k is the entry (k, action, L) of the largest index L
\* whose layer is on and maps k, and the identity entry when no layer that
\* is on maps k.
C1_HighestActiveLayerWins ==
    (pc = "run" /\ NoLocks) =>
        \A k \in KeyCode :
            IF ActiveWith(k) # {}
            THEN get(merged, k) = MergedKey(k, layers[Max(ActiveWith(k))][k], Max(ActiveWith(k)))
            ELSE get(merged, k) = Identity(k)

\* C2: on/off symmetry.  For every layer L > 0 that is off and that no lock
\* blocks, turn_layer_on(L) followed by turn_layer_off(L) gives back the
\* merged view the pair started from.
C2_OnOffSymmetry ==
    pc = "run" =>
        \A L \in DOMAIN layers :
            (L > 0 /\ ~layers_states[L] /\ is_layer_change_safe(L, layers[L])) =>
                turn_layer_off(turn_layer_on(Self, L), L).merged = merged

\* C3: global lock containment.  A call of one of the seven layer-changing
\* methods made while global_lock is set leaves merged and layers_states
\* as they were, whatever its argument.
C3_GlobalLockContainment ==
    [][(global_lock # NoOwner /\ last'.op \in LayerCalls)
          => UNCHANGED <<merged, layers_states>>]_vars

\* a turn_layer_on of a layer that is off was made under the global lock
C3_Witness ==
    /\ global_lock # NoOwner
    /\ last.op = "turn_layer_on"
    /\ ~layers_states[last.index]
    /\ key_locks = <<>>

\* C4: per-key lock containment.  No call changes merged[k] of a key k that
\* is in key_locks, and a turn_layer_on or turn_layer_off of a layer that
\* maps a locked key changes neither merged nor layers_states.
C4_KeyLockContainment ==
    [][/\ \A k \in DOMAIN key_locks : merged'[k] = merged[k]
       /\ (/\ last'.op \in {"turn_layer_on", "turn_layer_off"}
           /\ (DOMAIN layers[last'.index]) \cap (DOMAIN key_locks) # {})
             => UNCHANGED <<merged, layers_states>>]_vars

\* a turn_layer_on of a layer that is off and maps a locked key as well as
\* keys that are not locked was made, with no global lock
C4_Witness ==
    /\ global_lock = NoOwner
    /\ last.op = "turn_layer_on"
    /\ ~layers_states[last.index]
    /\ (DOMAIN layers[last.index]) \cap (DOMAIN key_locks) # {}
    /\ (DOMAIN layers[last.index]) \ (DOMAIN key_locks) # {}

\* C5: idempotence.  In every state and for every layer index L,
\* turn_layer_on(L) made twice gives the merged view and layer states that
\* one call gives, and so does turn_layer_off(L); neither call touches the
\* locks.
C5_Idempotence ==
    /\ [](pc = "run" =>
            \A L \in DOMAIN layers :
                /\ turn_layer_on(turn_layer_on(Self, L), L) = turn_layer_on(Self, L)
                /\ turn_layer_off(turn_layer_off(Self, L), L) = turn_layer_off(Self, L))
    /\ [][last'.op \in {"turn_layer_on", "turn_layer_off"} => UNCHANGED Locks]_vars

\* a turn_layer_off has just turned off a layer above the base that shares
\* a key with a lower layer
C5_Witness ==
    /\ last.op = "turn_layer_off"
    /\ last.index > 0
    /\ ~layers_states[last.index]
    /\ \E k \in DOMAIN layers[last.index] :
          \E i \in 0..(last.index - 1) : k \in DOMAIN layers[i]

\* the calls that come down to turn_layer_off(0) and nothing else
ReachesOnlyLayerOffZero(call) ==
    \/ call.op = "turn_layer_off" /\ call.index = 0
    \/ call.op = "toggle_layer" /\ call.index = 0 /\ layers_states[0]
    \/ call.op = "turn_alias_off" /\ get_idx_from_alias(call.name) = {0}
    \/ call.op = "toggle_layer_alias" /\ get_idx_from_alias(call.name) = {0} /\ layers_states[0]
    \/ /\ call.op = "toggle_profile" /\ ~call.on
       /\ call.name \in DOMAIN layer_profiles
       /\ \A i \in 1..Len(layer_profiles[call.name].indices) :
             layer_profiles[call.name].indices[i] = 0
       /\ \A i \in 1..Len(layer_profiles[call.name].aliases) :
             get_idx_from_alias(layer_profiles[call.name].aliases[i]) = {0}

\* C6: base immovable.  turn_layer_off(0), called directly or through
\* toggle_layer(0), an alias of layer 0 or a profile that lists layer 0,
\* changes neither merged nor layers_states, and layers_states[0] is true
\* in every state from init on.
C6_BaseImmovable ==
    /\ [](pc # "new" => layers_states[0])
    /\ [][ReachesOnlyLayerOffZero(last') => UNCHANGED <<merged, layers_states>>]_vars

\* turn_layer_off(0) was reached through a profile while no lock was held
\* and the base layer had entries in the merged view
C6_Witness ==
    /\ last.op = "toggle_profile" /\ ~last.on /\ last.name = "b"
    /\ last.name \in DOMAIN layer_profiles
    /\ NoLocks
    /\ layers_states[0]
    /\ \E k \in DOMAIN layers[0] : merged[k].layer_index = 0 /\ merged[k] # Identity(k)

\* C7: total coverage.  In every state, before and after init and under
\* any locks, the slot of every valid key code k is filled and holds an
\* entry whose code is k.
C7_TotalCoverage ==
    /\ DOMAIN merged = 0..(MAX_KEY - 1)
    /\ \A k \in KeyCode : merged[k] # None /\ get(merged, k).code = k

\* a layer above the base was turned off, which put the identity entry
\* back into a slot, while a key lock was held
C7_Witness ==
    /\ last.op = "turn_layer_off"
    /\ last.index > 0
    /\ ~layers_states[last.index]
    /\ key_locks # <<>>
    /\ \E k \in DOMAIN layers[last.index] : merged[k] = Identity(k)

\* C8: a lock is released only by its owner.  unlock_key(k, o) with o not
\* the recorded holder of k, and unlock_all(o) with o not the recorded
\* global holder, abort and leave the lock in place.
C8_UnlockOnlyByOwner ==
    [][/\ (/\ last'.op = "unlock_key"
           /\ last'.key \in DOMAIN key_locks
           /\ key_locks[last'.key] # last'.owner)
             => (pc' = "aborted" /\ key_locks' = key_locks)
       /\ (/\ last'.op = "unlock_all"
           /\ global_lock # NoOwner
           /\ global_lock # last'.owner)
             => (pc' = "aborted" /\ global_lock' = global_lock)]_vars

\* C9: lock exclusivity.  lock_key on a locked key and lock_all under a
\* global lock abort and keep the recorded owner; an owner that is
\* recorded is never replaced by another within one call.
C9_LockExclusivity ==
    [][/\ \A k \in (DOMAIN key_locks) \cap (DOMAIN key_locks') :
             key_locks'[k] = key_locks[k]
       /\ (global_lock # NoOwner /\ global_lock' # NoOwner) => global_lock' = global_lock
       /\ (last'.op = "lock_key" /\ last'.key \in DOMAIN key_locks)
             => (pc' = "aborted" /\ key_locks' = key_locks)
       /\ (last'.op = "lock_all" /\ global_lock # NoOwner)
             => (pc' = "aborted" /\ global_lock' = global_lock)]_vars

\* lock_key was called by another owner on a key that is locked
C9_Witness ==
    /\ pc = "aborted"
    /\ last.op = "lock_key"
    /\ last.key \in DOMAIN key_locks
    /\ key_locks[last.key] # last.owner

\* C10 as stated: in Scenario A the toggle_layer(1) made under the global
\* lock leaves the state as it was, with get(H).action = Tap(Key(H)), and
\* the toggle_layer(1) made after unlock_all gives get(H).action =
\* Tap(Key(H)) again.
C10_ScenarioLockStep_Original ==
    /\ [](scenario = 7 => get(merged, KEY_H).action = Tap(Key(KEY_H)))
    /\ [](scenario = 9 => get(merged, KEY_H).action = Tap(Key(KEY_H)))
    /\ [][(scenario = 6 /\ scenario' = 7) => UNCHANGED <<merged, layers_states, Locks>>]_vars

\* C10: in Scenario A the toggle_layer(1) made under the global lock leaves
\* the state as it was, with get(H).action = Tap(Key(H)); layer 1 is then
\* still off, so the toggle_layer(1) made after unlock_all turns it on and
\* get(H).action is Tap(Key(LEFT)).
C10_ScenarioLockStep ==
    /\ [](scenario = 7 => get(merged, KEY_H).action = Tap(Key(KEY_H)))
    /\ [](scenario = 9 => (layers_states[1] /\ get(merged, KEY_H).action = Tap(Key(KEY_LEFT))))
    /\ [][(scenario = 6 /\ scenario' = 7) => UNCHANGED <<merged, layers_states, Locks>>]_vars

\* the last call of Scenario A has been made
C10_Witness == scenario = 9 /\ last = ScenarioA[9] /\ layers = CfgA.layers

\* the text of the event of layer i going on or off
EventText(i, on) ==
    CASE i = 0 /\ on -> "layer 0:on"
      [] i = 0 /\ ~on -> "layer 0:off"
      [] i = 1 /\ on -> "layer 1:on"
      [] i = 1 /\ ~on -> "layer 1:off"
      [] i = 2 /\ on -> "layer 2:on"
      [] i = 2 /\ ~on -> "layer 2:off"

\* C11: notifications match transitions.  A call of turn_layer_on(i) or
\* turn_layer_off(i) sends the one event "layer i:on" / "layer i:off" when
\* it flips layers_states[i] and sends nothing when it does not (layer
\* already in the target state, call rejected by a lock, turn_layer_off(0)).
C11_NotificationsMatchTransitions ==
    [][last'.op \in {"turn_layer_on", "turn_layer_off"} =>
          /\ (layers_states'[last'.index] # layers_states[last'.index])
                => notified' = <<EventText(last'.index, last'.op = "turn_layer_on")>>
          /\ (layers_states'[last'.index] = layers_states[last'.index])
                => notified' = <<>>
          /\ (layers_states'[last'.index] # layers_states[last'.index])
                => layers_states'[last'.index] = (last'.op = "turn_layer_on")]_vars

\* turn_layer_off(2) has turned layer 2 off and sent its event
C11_Witness ==
    /\ last.op = "turn_layer_off"
    /\ last.index = 2
    /\ ~layers_states[2]
    /\ notified = <<"layer 2:off">>

\* the layers a profile names, by index or by a known alias
ProfileLayers(name) ==
    {layer_profiles[name].indices[i] : i \in 1..Len(layer_profiles[name].indices)}
    \cup UNION {get_idx_from_alias(layer_profiles[name].aliases[i]) :
                   i \in 1..Len(layer_profiles[name].aliases)}

\* C12: profile application without locks.  With no lock held,
\* toggle_profile(name, true) of a known profile ends with every layer the
\* profile names on, toggle_profile(name, false) ends with every such layer
\* other than layer 0 off, and the states of the other layers are as before.
C12_ProfileApplication ==
    [][(NoLocks /\ last'.op = "toggle_profile" /\ last'.name \in DOMAIN layer_profiles) =>
          /\ \A i \in ProfileLayers(last'.name) :
                IF last'.on THEN layers_states'[i] ELSE (i # 0 => ~layers_states'[i])
          /\ \A i \in (DOMAIN layers) \ ProfileLayers(last'.name) :
                layers_states'[i] = layers_states[i]]_vars

\* toggle_profile("q", true) has turned on layer 2 by index and then layer
\* 1 by alias, with no lock held
C12_Witness ==
    /\ last.op = "toggle_profile" /\ last.on /\ last.name = "q"
    /\ last.name \in DOMAIN layer_profiles
    /\ NoLocks
    /\ layers_states[1] /\ layers_states[2]
    /\ notified = <<"layer 2:on", "layer 1:on">>

\* C13: unknown names are silent no-ops.  turn_alias_on, turn_alias_off
\* and toggle_layer_alias of a name that is not in the alias table, and
\* toggle_profile of a name that is not in the profile table, change
\* neither merged, layers_states, key_locks nor global_lock, send nothing
\* and do not abort.
C13_UnknownNames ==
    [][(\/ /\ last'.op \in {"turn_alias_on", "turn_alias_off", "toggle_layer_alias"}
           /\ last'.name \notin DOMAIN layer_aliases
        \/ /\ last'.op = "toggle_profile"
           /\ last'.name \notin DOMAIN layer_profiles)
          => /\ UNCHANGED <<merged, layers_states, key_locks, global_lock>>
             /\ notified' = <<>>
             /\ pc' = pc]_vars

\* toggle_layer_alias of an unknown name was called with no lock held
\* while a layer was off and another layer above the base was on
C13_Witness ==
    /\ last.op = "toggle_layer_alias"
    /\ last.name \notin DOMAIN layer_aliases
    /\ pc = "run"
    /\ NoLocks
    /\ layers_states[1]
    /\ \E i \in DOMAIN layers : ~layers_states[i]

\* C14: construction and init.  After new and before init every layer is
\* off and get(k) of every valid key is the identity entry; the first init
\* turns on layer 0 and no other layer and puts layer 0's entries over the
\* identity entries; every later init leaves merged and layers_states as
\* they were.
C14_ConstructionAndInit ==
    /\ [](pc = "new" =>
            /\ \A i \in DOMAIN layers : ~layers_states[i]
            /\ \A k \in KeyCode : get(merged, k) = Identity(k))
    /\ [][/\ (pc = "new" /\ last'.op = "init") =>
                /\ layers_states' = [i \in DOMAIN layers |-> i = 0]
                /\ merged' = [k \in DOMAIN merged |->
                                 IF k \in DOMAIN layers[0]
                                 THEN MergedKey(k, layers[0][k], 0)
                                 ELSE merged[k]]
          /\ (pc = "run" /\ last'.op = "init") =>
                UNCHANGED <<merged, layers_states>>]_vars

\* init was called again while layer 2 was on and a key lock was held
C14_Witness ==
    /\ last.op = "init"
    /\ pc = "run"
    /\ 2 \in DOMAIN layers
    /\ layers_states[0] /\ layers_states[2]
    /\ key_locks # <<>>
    /\ \E k \in DOMAIN layers[0] : merged[k] = MergedKey(k, layers[0][k], 0)

\* the layers below the winner of code that are on and map code
ActiveBelowWinner(code) ==
    {i \in 0..(get(merged, code).layer_index - 1) :
        layers_states[i] /\ code \in DOMAIN layers[i]}

\* C15: deactivation replacement.  When turn_layer_off(L) runs unblocked
\* on a layer L > 0 that is on, the new entry of every key of L comes from
\* the highest layer below the key's current layer_index that is on and
\* maps the key, and is the identity entry when there is no such layer; a
\* layer that is off never supplies it.
C15_DeactivationReplacement ==
    [][(/\ last'.op = "turn_layer_off"
        /\ last'.index > 0
        /\ layers_states[last'.index]
        /\ is_layer_change_safe(last'.index, layers[last'.index]))
          => \A code \in DOMAIN layers[last'.index] :
                merged'[code] =
                    IF ActiveBelowWinner(code) # {}
                    THEN MergedKey(code, layers[Max(ActiveBelowWinner(code))][code],
                                   Max(ActiveBelowWinner(code)))
                    ELSE Identity(code)]_vars

\* C16: turning off a layer that is not the winner leaves the winner.  In
\* a call of turn_layer_off(L), the entry of every key of L whose
\* layer_index is above L is the same after the call as before it.
C16_WinnerUndisturbed ==
    [][(last'.op = "turn_layer_off") =>
          \A code \in DOMAIN layers[last'.index] :
              get(merged, code).layer_index > last'.index
                  => merged'[code] = merged[code]]_vars

\* C17: activation step.  A turn_layer_on(L) that runs unblocked on a
\* layer that is off writes (code, L's action, L) into the entries of
\* exactly the keys of L whose layer_index was <= L, leaves every other
\* entry as it was, sets layers_states[L] and changes no other layer state.
C17_ActivationStep ==
    [][(/\ last'.op = "turn_layer_on"
        /\ ~layers_states[last'.index]
        /\ is_layer_change_safe(last'.index, layers[last'.index]))
          => /\ \A k \in DOMAIN merged :
                   merged'[k] =
                       IF k \in DOMAIN layers[last'.index]
                          /\ get(merged, k).layer_index <= last'.index
                       THEN MergedKey(k, layers[last'.index][k], last'.index)
                       ELSE merged[k]
             /\ layers_states' = [layers_states EXCEPT ![last'.index] = TRUE]]_vars

\* turn_layer_on(L) has written one key of L and left another key of L to
\* the higher layer that holds it
C17_Witness ==
    /\ last.op = "turn_layer_on"
    /\ layers_states[last.index]
    /\ notified # <<>>
    /\ \E k \in DOMAIN layers[last.index] : get(merged, k).layer_index > last.index
    /\ \E k \in DOMAIN layers[last.index] :
          get(merged, k) = MergedKey(k, layers[last.index][k], last.index)

\* the indices the aliases of a profile stand for, unknown names left out
RECURSIVE AliasIndices(_)
AliasIndices(aliases) ==
    IF aliases = <<>>
    THEN <<>>
    ELSE (IF Head(aliases) \in DOMAIN layer_aliases
          THEN <<layer_aliases[Head(aliases)]>>
          ELSE <<>>) \o AliasIndices(Tail(aliases))

\* the entries of a profile in the order of application
ProfileEntries(name) ==
    layer_profiles[name].indices \o AliasIndices(layer_profiles[name].aliases)

\* the entries that turn their layer on: off so far and free of locked keys
RECURSIVE TurnedOn(_, _)
TurnedOn(entries, done) ==
    IF entries = <<>>
    THEN <<>>
    ELSE IF /\ Head(entries) \notin done
            /\ ~layers_states[Head(entries)]
            /\ (DOMAIN layers[Head(entries)]) \cap (DOMAIN key_locks) = {}
         THEN <<Head(entries)>> \o TurnedOn(Tail(entries), done \cup {Head(entries)})
         ELSE TurnedOn(Tail(entries), done)

\* C18: toggle_profile is not atomic under locks.  With key locks held and
\* no global lock, toggle_profile(name, true) applies each entry on its
\* own, indices first and aliases after them: a layer the profile names
\* ends on exactly when it was on already or maps no locked key, whether or
\* not another entry was rejected, and the events sent are those of the
\* layers turned on, in the order of the entries.  (The state of the
\* claim, with one layer of the profile turned on and another left off, is
\* C18_Witness.)
C18_ProfileNotAtomic ==
    [][(/\ last'.op = "toggle_profile" /\ last'.on
        /\ last'.name \in DOMAIN layer_profiles
        /\ global_lock = NoOwner)
          => /\ \A i \in ProfileLayers(last'.name) :
                   layers_states'[i] <=>
                       (layers_states[i] \/ (DOMAIN layers[i]) \cap (DOMAIN key_locks) = {})
             /\ \A i \in (DOMAIN layers) \ ProfileLayers(last'.name) :
                   layers_states'[i] = layers_states[i]
             /\ notified' =
                   [j \in 1..Len(TurnedOn(ProfileEntries(last'.name), {})) |->
                       EventText(TurnedOn(ProfileEntries(last'.name), {})[j], TRUE)]]_vars

\* toggle_profile("p", true) was called under a lock on a key of layer 1:
\* its first entry, layer 1, was rejected and is off, and the entry after
\* it, layer 2, was turned on
C18_Witness ==
    /\ last.op = "toggle_profile" /\ last.on /\ last.name = "p"
    /\ last.name \in DOMAIN layer_profiles
    /\ global_lock = NoOwner
    /\ KEY_H \in DOMAIN key_locks
    /\ KEY_A \notin DOMAIN key_locks
    /\ ~layers_states[1]
    /\ layers_states[2]
    /\ notified = <<"layer 2:on">>

LockCalls == {"lock_key", "unlock_key", "lock_all", "unlock_all"}

\* C19: rejection, not queuing.  lock_key, unlock_key, lock_all and
\* unlock_all change neither merged nor layers_states, and a layer goes
\* from off to on only in a layer-changing call.  In the lock scenario the
\* turn_layer_on(1) made under the lock on H changes nothing, layer 1 is
\* still off after unlock_key, and the turn_layer_on(1) made after the
\* unlock turns it on.
C19_RejectionNotQueuing ==
    /\ [][/\ last'.op \in LockCalls => UNCHANGED <<merged, layers_states>>
          /\ \A L \in DOMAIN layers :
                (~layers_states[L] /\ layers_states'[L])
                    => last'.op \in LayerCalls \cup {"init"}
          /\ (scenario_c = 2 /\ scenario_c' = 3)
                => (UNCHANGED <<merged, layers_states>> /\ notified' = <<>>)]_vars
    /\ [](scenario_c \in {3, 4} =>
            (~layers_states[1] /\ get(merged, KEY_H) = Identity(KEY_H)))
    /\ [](scenario_c = 5 =>
            (layers_states[1] /\ get(merged, KEY_H) = MergedKey(KEY_H, layers[1][KEY_H], 1)))

\* the lock scenario has been run to its end: the turn_layer_on made after
\* the unlock has turned layer 1 on
C19_Witness ==
    /\ scenario_c = 5
    /\ last = ScenarioC[5]
    /\ layers_states[1]
    /\ key_locks = <<>>
    /\ notified = <<"layer 1:on">>

\* C20: merged entries are genuine.  In every state the entry of every
\* valid key k is the identity entry or the entry (k, layers[i][k], i) of a
\* layer i that maps k, and its layer_index is an index of the layer table.
C20_MergedEntriesGenuine ==
    \A k \in KeyCode :
        /\ get(merged, k).layer_index \in DOMAIN layers
        /\ \/ get(merged, k) = Identity(k)
           \/ \E i \in DOMAIN layers :
                 /\ k \in DOMAIN layers[i]
                 /\ get(merged, k) = MergedKey(k, layers[i][k], i)

\* a turn_layer_off has put the entry of a lower layer, with that layer's
\* index, into the slot of one of its keys
C20_Witness ==
    /\ last.op = "turn_layer_off"
    /\ last.index > 0
    /\ ~layers_states[last.index]
    /\ notified # <<>>
    /\ \E k \in DOMAIN layers[last.index] :
          \E i \in 0..(last.index - 1) :
              /\ k \in DOMAIN layers[i]
              /\ get(merged, k) = MergedKey(k, layers[i][k], i)
              /\ get(merged, k) # Identity(k)

====
